---- MODULE Spec2Model ----
(***************************************************************************)
(* Model of mmpose/datasets/datasets2/body/coco_dataset.py (CocoDataset):  *)
(* the annotation-to-record pipeline: parse_data_info, _is_valid_instance, *)
(* the topdown and bottomup assemblers, the detection-result loader and    *)
(* filter_data, together with the construction / load / filter lifecycle.  *)
(*                                                                         *)
(* Numbers are integers: coordinates, sizes and scores are float32 in the  *)
(* source, and every operation used on them (clip, +, -, <, <=, min, max)  *)
(* is exact on the small integers drawn here.                              *)
(*                                                                         *)
(* An ndarray whose leading (instance) axis has length 1 is a sequence of  *)
(* length 1; np.concatenate along axis 0 is sequence concatenation.        *)
(* A Python dict is a record; a key the dict lacks is a field the record   *)
(* lacks.  Python's None is the record None.                               *)
(***************************************************************************)
EXTENDS Integers, Sequences, FiniteSets, TLC

VARIABLES pc, cfg, coco, det_results, raw_data_info, data_list, ret,
          merge_calls, loads, error

vars == <<pc, cfg, coco, det_results, raw_data_info, data_list, ret,
          merge_calls, loads, error>>

(***************************************************************************)
(* Bounds of the model.                                                    *)
(***************************************************************************)
MaxLen == 3      \* longest record / detection list given to a function
MaxFile == 2     \* longest annotation or detection file in the lifecycle
MaxDim == 2      \* image widths and heights drawn for parse_data_info
NumKpt == 2      \* K = metainfo['num_keypoints'] (17 for COCO)

(***************************************************************************)
(* Values that stand for Python objects.                                   *)
(***************************************************************************)
None == [none |-> TRUE]

IsNone(v) == "none" \in DOMAIN v

img_prefix == "img_prefix"

\* self.metainfo['sigmas']: one tolerance constant per keypoint
metainfo_sigmas == [k \in 1..NumKpt |-> 10 + k]

SeqsUpTo(S, n) == UNION {[1..m -> S] : m \in 0..n}

RECURSIVE Flatten(_)
Flatten(ss) == IF ss = <<>> THEN <<>> ELSE Head(ss) \o Flatten(Tail(ss))

Min(a, b) == IF a < b THEN a ELSE b

Max(a, b) == IF a > b THEN a ELSE b

\* np.clip(v, lo, hi) = minimum(maximum(v, lo), hi)
clip(v, lo, hi) == Min(Max(v, lo), hi)

\* np.count_nonzero over a sequence of numbers
RECURSIVE count_nonzero(_)
count_nonzero(s) ==
    IF s = <<>> THEN 0
    ELSE (IF Head(s) # 0 THEN 1 ELSE 0) + count_nonzero(Tail(s))

\* osp.join(prefix, file_name)
osp_join(prefix, file_name) == <<prefix, file_name>>

(***************************************************************************)
(* parse_data_info (lines 173-230).  ann and img are the raw annotation    *)
(* and the raw image info; ann.keypoints is the sequence of K (x, y, v)    *)
(* triples, the reshape(1, -1, 3) of the flat list.                        *)
(***************************************************************************)
\* variant: counts the slots whose visibility v is non-zero
derived_num_keypoints_by_visibility(ann) ==
    count_nonzero([k \in 1..Len(ann.keypoints) |-> ann.keypoints[k][3]])

derived_num_keypoints(ann) ==
    count_nonzero([k \in 1..Len(ann.keypoints) |->
                      Max(ann.keypoints[k][1], ann.keypoints[k][2])])

ann_num_keypoints(ann) ==
    IF "num_keypoints" \in DOMAIN ann
    THEN ann.num_keypoints
    ELSE derived_num_keypoints(ann)

\* variant: the far corner (x2, y2) is left unclipped
clipped_bbox_far_corner_unclipped(ann, img) ==
    LET x == ann.bbox[1]
        y == ann.bbox[2]
        w == ann.bbox[3]
        h == ann.bbox[4]
        x1 == clip(x, 0, img.width - 1)
        y1 == clip(y, 0, img.height - 1)
    IN  << <<x1, y1, (x + w) - x1, (y + h) - y1>> >>

clipped_bbox(ann, img) ==
    LET x == ann.bbox[1]
        y == ann.bbox[2]
        w == ann.bbox[3]
        h == ann.bbox[4]
        x1 == clip(x, 0, img.width - 1)
        y1 == clip(y, 0, img.height - 1)
        x2 == clip(x + w, 0, img.width - 1)
        y2 == clip(y + h, 0, img.height - 1)
    IN  << <<x1, y1, x2 - x1, y2 - y1>> >>

parse_data_info(raw) ==
    LET ann == raw.raw_ann_info
        img == raw.raw_img_info
        K == Len(ann.keypoints)
    IN  [image_id |-> ann.image_id,
         image_file |-> osp_join(img_prefix, img.file_name),
         image_shape |-> <<img.height, img.width, 3>>,
         bbox |-> clipped_bbox(ann, img),
         bbox_score |-> <<1>>,
         num_keypoints |-> ann_num_keypoints(ann),
         keypoints |-> << [k \in 1..K |->
                            <<ann.keypoints[k][1], ann.keypoints[k][2]>>] >>,
         keypoints_visible |-> << [k \in 1..K |->
                            <<Min(1, ann.keypoints[k][3])>>] >>,
         iscrowd |-> IF "iscrowd" \in DOMAIN ann THEN ann.iscrowd ELSE 0,
         segmentation |-> IF "segmentation" \in DOMAIN ann
                          THEN ann.segmentation ELSE None,
         id |-> ann.id,
         sigmas |-> metainfo_sigmas]

(***************************************************************************)
(* _is_valid_instance (lines 232-246).                                     *)
(***************************************************************************)
\* variant: a box is invalid only when both its width and height are <= 0
_is_valid_instance_both_dims(data_info) ==
    IF data_info.iscrowd # 0 THEN FALSE
    ELSE IF data_info.num_keypoints = 0 THEN FALSE
    ELSE IF data_info.bbox[1][3] <= 0 /\ data_info.bbox[1][4] <= 0 THEN FALSE
    ELSE TRUE

_is_valid_instance(data_info) ==
    IF data_info.iscrowd # 0 THEN FALSE
    ELSE IF data_info.num_keypoints = 0 THEN FALSE
    ELSE IF data_info.bbox[1][3] <= 0 \/ data_info.bbox[1][4] <= 0 THEN FALSE
    ELSE TRUE

(***************************************************************************)
(* _get_topdown_data_infos (lines 248-253): list(filter(valid, data_list)) *)
(***************************************************************************)
_get_topdown_data_infos(list) == SelectSeq(list, _is_valid_instance)

(***************************************************************************)
(* _get_bottomup_data_infos (lines 255-321).                               *)
(***************************************************************************)
\* the fields parse_data_info builds as ndarrays (lines 201-208, 220)
is_ndarray(key) ==
    key \in {"bbox", "bbox_score", "keypoints", "keypoints_visible"}

\* _concat (lines 258-262): the values of one key, concatenated along the
\* instance axis when they are ndarrays, listed otherwise
_concat(seq, key) ==
    LET vals == [i \in 1..Len(seq) |-> seq[i][key]]
    IN  IF is_ndarray(key) THEN Flatten(vals) ELSE vals

\* itertools.groupby(data_list, key=image_id): the maximal runs of
\* consecutive records with equal image_id, in order
RECURSIVE run_length(_, _)
run_length(list, n) ==
    IF n < Len(list) /\ list[n + 1].image_id = list[1].image_id
    THEN run_length(list, n + 1)
    ELSE n

\* variant: a stable partition by image_id (every record of an image in one
\* group, groups in first-seen order), whatever the input order
RECURSIVE groupby_partition(_)
groupby_partition(list) ==
    IF list = <<>> THEN <<>>
    ELSE LET same(r) == r.image_id = list[1].image_id
             other(r) == r.image_id # list[1].image_id
         IN  <<SelectSeq(list, same)>>
                \o groupby_partition(SelectSeq(list, other))

RECURSIVE groupby(_)
groupby(list) ==
    IF list = <<>> THEN <<>>
    ELSE LET n == run_length(list, 1)
         IN  <<SubSeq(list, 1, n)>> \o groupby(SubSeq(list, n + 1, Len(list)))

\* `not seg` (line 305): None and the empty list are falsy
not_seg(seg) ==
    IF IsNone(seg) THEN TRUE ELSE seg.kind = "poly" /\ seg.parts = <<>>

\* cocomask.frPyObjects(seg, img_h, img_w): a list of polygons gives a list
\* of RLEs, one per polygon; one uncompressed RLE gives one RLE
frPyObjects(seg, img_h, img_w) ==
    IF seg.kind = "poly"
    THEN [p \in 1..Len(seg.parts) |->
            [region |-> seg.parts[p], size |-> <<img_h, img_w>>]]
    ELSE [region |-> seg.region, size |-> <<img_h, img_w>>]

\* cocomask.merge(rles): the union of the regions
merge(rles) == [union |-> {rles[i] : i \in 1..Len(rles)}]

\* variant: every invalid non-crowd instance contributes its parts (the
\* num_keypoints == 0 test is dropped)
RECURSIVE collect_rles_any_invalid(_, _)
collect_rles_any_invalid(data_infos, image_shape) ==
    IF data_infos = <<>> THEN <<>>
    ELSE LET d == Head(data_infos)
             rest == collect_rles_any_invalid(Tail(data_infos), image_shape)
             img_h == image_shape[1]
             img_w == image_shape[2]
         IN  IF _is_valid_instance(d) THEN rest
             ELSE IF not_seg(d.segmentation) THEN rest
             ELSE IF d.iscrowd # 0
                  THEN <<frPyObjects(d.segmentation, img_h, img_w)>> \o rest
             ELSE frPyObjects(d.segmentation, img_h, img_w) \o rest

\* lines 301-315: the masks collected from the invalid instances of a group
RECURSIVE collect_rles(_, _)
collect_rles(data_infos, image_shape) ==
    IF data_infos = <<>> THEN <<>>
    ELSE LET d == Head(data_infos)
             rest == collect_rles(Tail(data_infos), image_shape)
             img_h == image_shape[1]
             img_w == image_shape[2]
         IN  IF _is_valid_instance(d) THEN rest
             ELSE IF not_seg(d.segmentation) THEN rest
             ELSE IF d.iscrowd # 0
                  THEN <<frPyObjects(d.segmentation, img_h, img_w)>> \o rest
             ELSE IF d.num_keypoints = 0
                  THEN frPyObjects(d.segmentation, img_h, img_w) \o rest
             ELSE rest

\* variant: the fields are concatenated over every instance of the group,
\* valid or not
bottomup_group_concat_all(data_infos) ==
    LET image_id == data_infos[1].image_id
        data_infos_valid == SelectSeq(data_infos, _is_valid_instance)
    IN  IF data_infos_valid = <<>> THEN <<>>
        ELSE LET first == data_infos_valid[1]
                 rles == collect_rles(data_infos, first.image_shape)
                 data_info_bu ==
                    [key \in DOMAIN first \cup {"mask_invalid_rle"} |->
                        CASE key = "image_id" -> image_id
                          [] key = "image_file" -> first.image_file
                          [] key = "image_shape" -> first.image_shape
                          [] key = "sigmas" -> first.sigmas
                          [] key = "mask_invalid_rle" -> merge(rles)
                          [] OTHER -> _concat(data_infos, key)]
             IN  << [info |-> data_info_bu, rles |-> rles] >>

\* lines 270-319: one group; <<>> when it has no valid instance, else the
\* aggregate record and the list handed to cocomask.merge
bottomup_group(data_infos) ==
    LET image_id == data_infos[1].image_id
        data_infos_valid == SelectSeq(data_infos, _is_valid_instance)
    IN  IF data_infos_valid = <<>> THEN <<>>
        ELSE LET first == data_infos_valid[1]
                 rles == collect_rles(data_infos, first.image_shape)
                 data_info_bu ==
                    [key \in DOMAIN first \cup {"mask_invalid_rle"} |->
                        CASE key = "image_id" -> image_id
                          [] key = "image_file" -> first.image_file
                          [] key = "image_shape" -> first.image_shape
                          [] key = "sigmas" -> first.sigmas
                          [] key = "mask_invalid_rle" -> merge(rles)
                          [] OTHER -> _concat(data_infos_valid, key)]
             IN  << [info |-> data_info_bu, rles |-> rles] >>

_get_bottomup_data_infos(list) ==
    LET groups == groupby(list)
    IN  Flatten([g \in 1..Len(groups) |-> bottomup_group(groups[g])])

(***************************************************************************)
(* _load_annotations (lines 149-171).  index is the annotation index:      *)
(* index.imgs[image_id] is loadImgs(image_id)[0], index.anns the           *)
(* annotations of the file, in file order.                                 *)
(***************************************************************************)
\* coco.loadAnns(coco.getAnnIds(imgIds=img_id, iscrowd=False)): the
\* annotations of the image whose iscrowd equals False (0)
anns_of_image(index, img_id) ==
    LET wanted(ann) == ann.image_id = img_id /\ ann.iscrowd = 0
    IN  SelectSeq(index.anns, wanted)

_load_annotations(index) ==
    Flatten([img_id \in 1..Len(index.imgs) |->
        LET anns == anns_of_image(index, img_id)
        IN  [a \in 1..Len(anns) |->
                parse_data_info([raw_ann_info |-> anns[a],
                                 raw_img_info |-> index.imgs[img_id]])]])

(***************************************************************************)
(* _load_detection_results (lines 323-368).                                *)
(***************************************************************************)
\* lines 344-364: the record of one person detection
detection_record(det, index, id_) ==
    LET img == index.imgs[det.image_id]
    IN  [image_id |-> det.image_id,
         image_file |-> osp_join(img_prefix, img.file_name),
         image_shape |-> <<img.height, img.width, 3>>,
         bbox |-> << SubSeq(det.bbox, 1, 4) >>,
         bbox_score |-> <<det.score>>,
         keypoints |-> << [k \in 1..NumKpt |-> <<0, 0>>] >>,
         keypoints_visible |-> << [k \in 1..NumKpt |-> <<1>>] >>,
         id |-> id_]

\* variant: id_ advances for every detection, skipped or not
RECURSIVE detection_loop_enumerate(_, _, _)
detection_loop_enumerate(dets, index, id_) ==
    IF dets = <<>> THEN <<>>
    ELSE IF Head(dets).category_id # 1
         THEN detection_loop_enumerate(Tail(dets), index, id_ + 1)
         ELSE <<detection_record(Head(dets), index, id_)>>
                \o detection_loop_enumerate(Tail(dets), index, id_ + 1)

\* lines 339-366: the loop over det_results, id_ the next id to assign
RECURSIVE detection_loop(_, _, _)
detection_loop(dets, index, id_) ==
    IF dets = <<>> THEN <<>>
    ELSE IF Head(dets).category_id # 1
         THEN detection_loop(Tail(dets), index, id_)
         ELSE <<detection_record(Head(dets), index, id_)>>
                \o detection_loop(Tail(dets), index, id_ + 1)

_load_detection_results(dets, index) == detection_loop(dets, index, 0)

(***************************************************************************)
(* filter_data (lines 370-396): raised tells a ValueError, value is the    *)
(* list returned.                                                          *)
(***************************************************************************)
\* variant: a score equal to the threshold is dropped too
filter_data_drop_equal(list, filter_cfg, data_mode) ==
    IF IsNone(filter_cfg) THEN [raised |-> FALSE, value |-> list]
    ELSE IF "bbox_score_thr" \in DOMAIN filter_cfg
    THEN IF data_mode # "topdown"
         THEN [raised |-> TRUE, value |-> <<>>]
         ELSE LET thr == filter_cfg.bbox_score_thr
                  keep(ann) == ~(ann.bbox_score[1] <= thr)
              IN  [raised |-> FALSE, value |-> SelectSeq(list, keep)]
    ELSE [raised |-> FALSE, value |-> list]

filter_data(list, filter_cfg, data_mode) ==
    IF IsNone(filter_cfg) THEN [raised |-> FALSE, value |-> list]
    ELSE IF "bbox_score_thr" \in DOMAIN filter_cfg
    THEN IF data_mode # "topdown"
         THEN [raised |-> TRUE, value |-> <<>>]
         ELSE LET thr == filter_cfg.bbox_score_thr
                  keep(ann) == ~(ann.bbox_score[1] < thr)
              IN  [raised |-> FALSE, value |-> SelectSeq(list, keep)]
    ELSE [raised |-> FALSE, value |-> list]

(***************************************************************************)
(* __init__ (lines 100-118): the error raised before super().__init__, or  *)
(* "none".  A bbox_file of "" stands for None (falsy).                     *)
(***************************************************************************)
\* variant: bbox_file is accepted when test_mode is off
init_error_no_test_mode_check(c) ==
    IF c.data_mode \notin {"topdown", "bottomup"} THEN "invalid data_mode"
    ELSE IF c.bbox_file # "" /\ c.data_mode # "topdown"
    THEN "bbox_file needs topdown"
    ELSE "none"

init_error(c) ==
    IF c.data_mode \notin {"topdown", "bottomup"} THEN "invalid data_mode"
    ELSE IF c.bbox_file # "" /\ c.data_mode # "topdown"
    THEN "bbox_file needs topdown"
    ELSE IF c.bbox_file # "" /\ ~c.test_mode
    THEN "bbox_file needs test_mode"
    ELSE "none"

(***************************************************************************)
(* Values of the variables a specification does not use.                   *)
(***************************************************************************)
NoCfg == [data_mode |-> "topdown", bbox_file |-> "", test_mode |-> FALSE,
          filter_cfg |-> None]

NoCoco == [imgs |-> <<>>, anns |-> <<>>]

(***************************************************************************)
(* SpecParse: parse_data_info applied to one raw annotation of one image.  *)
(***************************************************************************)
\* raw_img_info: file name, width, height
ParseImgs ==
    {[file_name |-> "a.jpg", width |-> W, height |-> H] :
        W \in 1..MaxDim, H \in 1..MaxDim}

\* source boxes (x, y, w, h): inside, straddling and outside every image
ParseBoxes ==
    {<<x, y, w, h>> : x \in -2..(MaxDim + 1), y \in -2..(MaxDim + 1),
                      w \in {0, 2}, h \in {0, 2}}

\* one keypoint slot (x, y, v)
KptSlots == {<<0, 0, 0>>, <<0, 0, 2>>, <<1, 2, 0>>, <<1, 2, 1>>, <<-1, 0, 1>>}

\* a source annotation; nk = -1: no num_keypoints field, crowd = FALSE: no
\* iscrowd field
ParseAnn(b, k, nk, crowd) ==
    LET base == [image_id |-> 1, id |-> 7, bbox |-> b, keypoints |-> k]
        any_nk == IF nk = -1 THEN base ELSE base @@ [num_keypoints |-> nk]
    IN  IF crowd THEN any_nk @@ [iscrowd |-> 1] ELSE any_nk

InitParse ==
    /\ pc = "start"
    /\ \E b \in ParseBoxes, k \in [1..NumKpt -> KptSlots],
          nk \in {-1, 0, 1}, crowd \in BOOLEAN, i \in ParseImgs :
            raw_data_info = [raw_ann_info |-> ParseAnn(b, k, nk, crowd),
                             raw_img_info |-> i]
    /\ cfg = NoCfg
    /\ coco = NoCoco
    /\ det_results = <<>>
    /\ data_list = <<>>
    /\ ret = <<>>
    /\ merge_calls = <<>>
    /\ loads = 0
    /\ error = "none"

ParseDataInfo ==
    /\ pc = "start"
    /\ ret' = parse_data_info(raw_data_info)
    /\ pc' = "parsed"
    /\ UNCHANGED <<cfg, coco, det_results, raw_data_info, data_list,
                   merge_calls, loads, error>>

NextParse == ParseDataInfo

SpecParse == InitParse /\ [][NextParse]_vars

(***************************************************************************)
(* Claims about parse_data_info (SpecParse).                               *)
(***************************************************************************)
SrcBox == raw_data_info.raw_ann_info.bbox

SrcImg == raw_data_info.raw_img_info

\* the source box [x, x+w] misses the pixel columns 0..width-1
OutsideX ==
    /\ SrcBox[3] >= 0
    /\ \/ SrcBox[1] + SrcBox[3] < 0
       \/ SrcBox[1] > SrcImg.width - 1

\* the source box [y, y+h] misses the pixel rows 0..height-1
OutsideY ==
    /\ SrcBox[4] >= 0
    /\ \/ SrcBox[2] + SrcBox[4] < 0
       \/ SrcBox[2] > SrcImg.height - 1

FullyOutside == SrcBox[3] >= 0 /\ SrcBox[4] >= 0 /\ (OutsideX \/ OutsideY)

\* C8 as stated: a source box fully outside the image bounds (on any side)
\* is normalized to width <= 0 and height <= 0, and the validator rejects
\* the record.
C8_Original ==
    (pc = "parsed" /\ FullyOutside) =>
        /\ ret.bbox[1][3] <= 0
        /\ ret.bbox[1][4] <= 0
        /\ ~_is_valid_instance(ret)

\* C8 amended: a source box fully outside the image bounds is normalized to
\* width <= 0 when it lies outside horizontally and to height <= 0 when it
\* lies outside vertically (at least one of the two, not necessarily both),
\* and the validator rejects the record whatever its keypoints,
\* num_keypoints and iscrowd are.
C8_OutsideBoxRejected ==
    (pc = "parsed" /\ FullyOutside) =>
        /\ OutsideX => ret.bbox[1][3] <= 0
        /\ OutsideY => ret.bbox[1][4] <= 0
        /\ ret.bbox[1][3] <= 0 \/ ret.bbox[1][4] <= 0
        /\ ~_is_valid_instance(ret)

\* a box outside on the right only, with annotated keypoints and no crowd
\* flag: its normalized height stays positive and only the width rejects it
C8_Witness ==
    /\ pc = "parsed"
    /\ OutsideX /\ ~OutsideY
    /\ ret.bbox[1][3] <= 0 /\ ret.bbox[1][4] > 0
    /\ ret.iscrowd = 0 /\ ret.num_keypoints > 0
    /\ ~_is_valid_instance(ret)

SrcAnn == raw_data_info.raw_ann_info

\* keypoint slots whose visibility value v is non-zero
SlotsVisible == {k \in 1..Len(SrcAnn.keypoints) : SrcAnn.keypoints[k][3] # 0}

\* keypoint slots whose larger coordinate is non-zero: not (one coordinate
\* is 0 and the other is <= 0)
SlotsMaxNonZero ==
    {k \in 1..Len(SrcAnn.keypoints) :
        ~ \/ SrcAnn.keypoints[k][1] = 0 /\ SrcAnn.keypoints[k][2] <= 0
          \/ SrcAnn.keypoints[k][2] = 0 /\ SrcAnn.keypoints[k][1] <= 0}

\* C10 as stated: without a num_keypoints field the record's num_keypoints
\* is the number of slots with non-zero visibility v; with the field it is
\* copied through.
C10_Original ==
    pc = "parsed" =>
        IF "num_keypoints" \in DOMAIN SrcAnn
        THEN ret.num_keypoints = SrcAnn.num_keypoints
        ELSE ret.num_keypoints = Cardinality(SlotsVisible)

\* C10 amended: without a num_keypoints field the record's num_keypoints is
\* the number of keypoint slots whose max(x, y) is non-zero (the visibility
\* value v is not consulted); with the field it is copied through.
C10_NumKeypointsFromCoordinates ==
    pc = "parsed" =>
        IF "num_keypoints" \in DOMAIN SrcAnn
        THEN ret.num_keypoints = SrcAnn.num_keypoints
        ELSE ret.num_keypoints = Cardinality(SlotsMaxNonZero)

\* no num_keypoints field, and the coordinate count differs from the
\* visibility count
C10_Witness ==
    /\ pc = "parsed"
    /\ "num_keypoints" \notin DOMAIN SrcAnn
    /\ ret.num_keypoints = Cardinality(SlotsMaxNonZero)
    /\ Cardinality(SlotsMaxNonZero) # Cardinality(SlotsVisible)

(***************************************************************************)
(* The annotation index (xtcocotools COCO): images by id, and annotations. *)
(* Raw annotations are drawn from kinds that cover every way an instance   *)
(* is valid or invalid; a crowd object carries one uncompressed RLE, a     *)
(* non-crowd object a list of polygons (the COCO format).  nk and crowd of *)
(* -1 stand for an annotation without that key.                            *)
(***************************************************************************)
ImageIds == {1, 2}

\* coco.loadImgs(image_id)[0]
Imgs == <<[file_name |-> "1.jpg", width |-> 4, height |-> 3],
          [file_name |-> "2.jpg", width |-> 3, height |-> 4]>>

KptsOne == [k \in 1..NumKpt |-> IF k = 1 THEN <<1, 2, 2>> ELSE <<0, 0, 0>>]

KptsZero == [k \in 1..NumKpt |-> <<0, 0, 0>>]

AnnKinds ==
    { [bbox |-> <<0, 0, 2, 2>>, keypoints |-> KptsOne, nk |-> -1,
       crowd |-> -1, seg |-> "absent"],                     \* valid
      [bbox |-> <<1, 0, 1, 2>>, keypoints |-> KptsOne, nk |-> 2,
       crowd |-> 0, seg |-> "poly2"],                       \* valid, with mask
      [bbox |-> <<0, 0, 2, 2>>, keypoints |-> KptsOne, nk |-> 1,
       crowd |-> 1, seg |-> "rle"],                         \* crowd
      [bbox |-> <<0, 0, 2, 2>>, keypoints |-> KptsOne, nk |-> 1,
       crowd |-> 1, seg |-> "absent"],                      \* crowd, no mask
      [bbox |-> <<0, 0, 2, 2>>, keypoints |-> KptsZero, nk |-> 0,
       crowd |-> 1, seg |-> "rle"],                         \* crowd, no kpts
      [bbox |-> <<0, 0, 2, 2>>, keypoints |-> KptsZero, nk |-> -1,
       crowd |-> 0, seg |-> "poly2"],                       \* no keypoints
      [bbox |-> <<0, 0, 2, 2>>, keypoints |-> KptsZero, nk |-> 0,
       crowd |-> 0, seg |-> "empty"],                       \* no kpts, seg []
      [bbox |-> <<9, 0, 2, 2>>, keypoints |-> KptsOne, nk |-> 1,
       crowd |-> 0, seg |-> "poly2"],                       \* width 0
      [bbox |-> <<0, 2, 2, -1>>, keypoints |-> KptsOne, nk |-> 1,
       crowd |-> 0, seg |-> "poly1"],                       \* height -1
      [bbox |-> <<9, 0, 2, 2>>, keypoints |-> KptsZero, nk |-> 0,
       crowd |-> 0, seg |-> "poly1"] }                      \* no kpts, width 0

\* ann['segmentation'] of annotation id: its regions are named after it
Segmentation(seg, id) ==
    CASE seg = "rle" -> [kind |-> "rle", region |-> <<id, 0>>]
      [] seg = "empty" -> [kind |-> "poly", parts |-> <<>>]
      [] seg = "poly1" -> [kind |-> "poly", parts |-> << <<id, 1>> >>]
      [] seg = "poly2" -> [kind |-> "poly",
                           parts |-> << <<id, 1>>, <<id, 2>> >>]

\* the raw annotation dict of a kind, for an image and an annotation id
MakeAnn(kind, image_id, id) ==
    LET a0 == [image_id |-> image_id, id |-> id, bbox |-> kind.bbox,
               keypoints |-> kind.keypoints]
        a1 == IF kind.nk >= 0
              THEN a0 @@ [num_keypoints |-> kind.nk] ELSE a0
        a2 == IF kind.crowd >= 0
              THEN a1 @@ [iscrowd |-> kind.crowd] ELSE a1
    IN  IF kind.seg # "absent"
        THEN a2 @@ [segmentation |-> Segmentation(kind.seg, id)] ELSE a2

\* the canonical record parse_data_info builds for annotation i of a file
RecordOf(entry, i) ==
    parse_data_info([raw_ann_info |-> MakeAnn(entry[2], entry[1], i),
                     raw_img_info |-> Imgs[entry[1]]])

(***************************************************************************)
(* SpecAsm: the two assemblers applied to a flat list of canonical         *)
(* records, in any order of image_id; a record's id is its position.       *)
(***************************************************************************)
InitAsm ==
    /\ pc = "start"
    /\ \E s \in SeqsUpTo(ImageIds \X AnnKinds, MaxLen) :
          data_list = [i \in 1..Len(s) |-> RecordOf(s[i], i)]
    /\ cfg = NoCfg
    /\ coco = NoCoco
    /\ det_results = <<>>
    /\ raw_data_info = <<>>
    /\ ret = <<>>
    /\ merge_calls = <<>>
    /\ loads = 0
    /\ error = "none"

GetTopdown ==
    /\ pc = "start"
    /\ ret' = _get_topdown_data_infos(data_list)
    /\ pc' = "topdown"
    /\ UNCHANGED <<cfg, coco, det_results, raw_data_info, data_list,
                   merge_calls, loads, error>>

GetBottomup ==
    /\ pc = "start"
    /\ LET out == _get_bottomup_data_infos(data_list)
       IN  /\ ret' = [k \in 1..Len(out) |-> out[k].info]
           /\ merge_calls' = [k \in 1..Len(out) |-> out[k].rles]
    /\ pc' = "bottomup"
    /\ UNCHANGED <<cfg, coco, det_results, raw_data_info, data_list,
                   loads, error>>

NextAsm == GetTopdown \/ GetBottomup

SpecAsm == InitAsm /\ [][NextAsm]_vars

(***************************************************************************)
(* Claims about the assemblers (SpecAsm).                                  *)
(***************************************************************************)
\* the four rejection conditions of the Instance Validator
Rejected(r) ==
    \/ r.iscrowd # 0
    \/ r.num_keypoints = 0
    \/ r.bbox[1][3] <= 0
    \/ r.bbox[1][4] <= 0

Indices == 1..Len(data_list)

ValidIdx == {i \in Indices : ~Rejected(data_list[i])}

\* the position of index i among the indices of S, in ascending order
Rank(i, S) == Cardinality({j \in S : j <= i})

\* C1: _get_topdown_data_infos returns exactly the records the validator
\* accepts, in input order; a record is rejected iff it is a crowd, has
\* num_keypoints == 0, or has box width <= 0 or box height <= 0.
C1_TopdownIsValidSubsequence ==
    pc = "topdown" =>
        /\ \A i \in Indices :
              _is_valid_instance(data_list[i]) <=> ~Rejected(data_list[i])
        /\ Len(ret) = Cardinality(ValidIdx)
        /\ \A i \in ValidIdx : ret[Rank(i, ValidIdx)] = data_list[i]

\* a rejected record between two accepted ones is dropped and the order of
\* the two kept
C1_Witness ==
    /\ pc = "topdown"
    /\ Len(data_list) = 3
    /\ ValidIdx = {1, 3}
    /\ data_list[2].iscrowd = 0 /\ data_list[2].num_keypoints > 0
    /\ ret = <<data_list[1], data_list[3]>>

\* indices i..j (either order) all carry the image_id of i
SameRun(i, j) ==
    \A m \in Min(i, j)..Max(i, j) :
        data_list[m].image_id = data_list[i].image_id

RunStart(i) == i = 1 \/ data_list[i - 1].image_id # data_list[i].image_id

\* the runs of consecutive equal image_id that hold a valid instance
RunsWithValid ==
    {i \in Indices : RunStart(i) /\ \E j \in ValidIdx : SameRun(i, j)}

ImagesWithValid == {data_list[i].image_id : i \in ValidIdx}

ContiguousByImage ==
    \A i, j \in Indices :
        data_list[i].image_id = data_list[j].image_id => SameRun(i, j)

\* C2 as stated: for a list in any order, the number of aggregate records
\* is the number of distinct image ids with at least one valid instance.
C2_Original ==
    pc = "bottomup" => Len(ret) = Cardinality(ImagesWithValid)

\* C2 amended: the number of aggregate records is the number of maximal
\* runs of consecutive records with equal image_id that hold at least one
\* valid instance; a run of invalid instances only contributes none; when
\* the records of each image are contiguous this is the number of distinct
\* image ids with at least one valid instance.
C2_OneAggregatePerRunWithValid ==
    pc = "bottomup" =>
        /\ Len(ret) = Cardinality(RunsWithValid)
        /\ \A k \in 1..Len(ret) : ret[k].image_id \in ImagesWithValid
        /\ ContiguousByImage => Len(ret) = Cardinality(ImagesWithValid)

\* two images, contiguous, one of them with invalid instances only: one
\* aggregate record
C2_Witness ==
    /\ pc = "bottomup"
    /\ ContiguousByImage
    /\ Cardinality({data_list[i].image_id : i \in Indices}) = 2
    /\ Cardinality(ImagesWithValid) = 1
    /\ Len(ret) = 1

ScalarFields ==
    {"image_id", "image_file", "image_shape", "sigmas", "mask_invalid_rle"}

ArrayFields == {"bbox", "bbox_score", "keypoints", "keypoints_visible"}

\* the value instance j contributes to a concatenated field
Contribution(j, key) ==
    IF key \in ArrayFields THEN data_list[j][key][1] ELSE data_list[j][key]

\* aggregate k lists the valid instances V, in input order
AggregateLists(k, V) ==
    /\ V # {}
    /\ LET f == CHOOSE i \in V : \A j \in V : i <= j
       IN  /\ ret[k].image_file = data_list[f].image_file
           /\ ret[k].image_shape = data_list[f].image_shape
           /\ ret[k].sigmas = data_list[f].sigmas
           /\ ret[k].image_id = data_list[f].image_id
    /\ \A key \in (DOMAIN ret[k]) \ ScalarFields :
          /\ Len(ret[k][key]) = Cardinality(V)
          /\ \A j \in V : ret[k][key][Rank(j, V)] = Contribution(j, key)

\* the first instance of aggregate k (a record's id is its position)
FirstOf(k) == ret[k].id[1]

\* C3 as stated: the concatenated fields of an aggregate list the valid
\* instances of that image (all of them, wherever they are in the input).
C3_Original ==
    pc = "bottomup" =>
        \A k \in 1..Len(ret) :
            AggregateLists(k, {j \in ValidIdx :
                data_list[j].image_id = ret[k].image_id})

\* C3 amended: the concatenated fields of an aggregate have length equal to
\* the count of valid instances of its run of consecutive records with
\* that image_id, and list those instances' values in input order, no
\* invalid instance included; image_file, image_shape and sigmas are those
\* of the run's first valid instance.
C3_AggregateListsValidOfRun ==
    pc = "bottomup" =>
        \A k \in 1..Len(ret) :
            /\ FirstOf(k) \in ValidIdx
            /\ AggregateLists(k, {j \in ValidIdx : SameRun(FirstOf(k), j)})

\* an aggregate of two valid instances with an invalid one between them
C3_Witness ==
    /\ pc = "bottomup"
    /\ Len(data_list) = 3
    /\ ValidIdx = {1, 3}
    /\ SameRun(1, 3)
    /\ Len(ret) = 1
    /\ ret[1].id = <<1, 3>>
    /\ ret[1].bbox = data_list[1].bbox \o data_list[3].bbox

HasSeg(r) ==
    /\ ~IsNone(r.segmentation)
    /\ r.segmentation.kind = "poly" => r.segmentation.parts # <<>>

\* the regions instance j must contribute to the merge of its group
ExpectedRegions(j) ==
    LET r == data_list[j]
    IN  IF ~Rejected(r) \/ ~HasSeg(r) THEN {}
        ELSE IF r.iscrowd # 0 THEN {r.segmentation.region}
        ELSE IF r.num_keypoints = 0
             THEN {r.segmentation.parts[p] :
                      p \in 1..Len(r.segmentation.parts)}
        ELSE {}

\* C4: the list handed to cocomask.merge for a group holds, per invalid
\* instance with a segmentation, one region if it is a crowd, all parts if
\* it is non-crowd with num_keypoints == 0, and nothing otherwise; valid
\* instances and instances without segmentation contribute nothing.
C4_MergedRegions ==
    pc = "bottomup" =>
        /\ Len(merge_calls) = Len(ret)
        /\ \A k \in 1..Len(ret) :
            LET rles == merge_calls[k]
                group == {j \in Indices : SameRun(FirstOf(k), j)}
                expected == UNION {ExpectedRegions(j) : j \in group}
                h == ret[k].image_shape[1]
                w == ret[k].image_shape[2]
            IN  /\ Len(rles) = Cardinality(expected)
                /\ {rles[n].region : n \in 1..Len(rles)} = expected
                /\ \A n \in 1..Len(rles) : rles[n].size = <<h, w>>
                /\ ret[k].mask_invalid_rle.union =
                      {[region |-> x, size |-> <<h, w>>] : x \in expected}

\* one valid instance, one crowd with a mask and one non-crowd instance
\* without keypoints and a 2-part mask: three regions are merged
C4_Witness ==
    /\ pc = "bottomup"
    /\ Len(ret) = 1
    /\ \E i, j \in Indices :
          /\ data_list[i].iscrowd # 0 /\ HasSeg(data_list[i])
          /\ data_list[j].iscrowd = 0 /\ data_list[j].num_keypoints = 0
          /\ HasSeg(data_list[j])
          /\ Len(data_list[j].segmentation.parts) = 2
    /\ Len(merge_calls[1]) = 3

(***************************************************************************)
(* Detection files and filter configurations.                              *)
(***************************************************************************)
\* one detection: the first on image 1, inside it; the second on image 2,
\* outside it and with a fifth bbox value
DetKinds ==
    {[image_id |-> 1, bbox |-> <<0, 0, 2, 2>>, category_id |-> c, score |-> s] :
        c \in {1, 2}, s \in {0, 1, 2}}
    \cup
    {[image_id |-> 2, bbox |-> <<-5, 9, 20, 30, 7>>, category_id |-> c,
      score |-> s] : c \in {1, 2}, s \in {0, 1, 2}}

\* the detection dicts of a file; a detection's own id is 100 + position
DetFile(s) == [i \in 1..Len(s) |-> s[i] @@ [id |-> 100 + i]]

\* filter_cfg: None, a dict without bbox_score_thr, or a threshold
FilterCfgs ==
    {None, [min_size |-> 0]} \cup {[bbox_score_thr |-> t] : t \in {0, 1, 2}}

ImageIndex == [imgs |-> Imgs, anns |-> <<>>]

(***************************************************************************)
(* SpecDet: _load_detection_results on a detection list, then filter_data  *)
(* on the stored list (topdown, evaluation mode).                          *)
(***************************************************************************)
InitDet ==
    /\ pc = "start"
    /\ \E s \in SeqsUpTo(DetKinds, MaxLen) : det_results = DetFile(s)
    /\ \E f \in FilterCfgs :
          cfg = [data_mode |-> "topdown", bbox_file |-> "det.json",
                 test_mode |-> TRUE, filter_cfg |-> f]
    /\ coco = ImageIndex
    /\ raw_data_info = <<>>
    /\ data_list = <<>>
    /\ ret = <<>>
    /\ merge_calls = <<>>
    /\ loads = 0
    /\ error = "none"

LoadDetectionResults ==
    /\ pc = "start"
    /\ data_list' = _load_detection_results(det_results, coco)
    /\ pc' = "loaded"
    /\ UNCHANGED <<cfg, coco, det_results, raw_data_info, ret, merge_calls,
                   loads, error>>

FilterStored ==
    /\ pc = "loaded"
    /\ LET r == filter_data(data_list, cfg.filter_cfg, cfg.data_mode)
       IN  /\ ~r.raised
           /\ ret' = r.value
    /\ pc' = "filtered"
    /\ UNCHANGED <<cfg, coco, det_results, raw_data_info, data_list,
                   merge_calls, loads, error>>

NextDet == LoadDetectionResults \/ FilterStored

SpecDet == InitDet /\ [][NextDet]_vars

(***************************************************************************)
(* Claims about _load_detection_results and filter_data (SpecDet).         *)
(***************************************************************************)
HasThr == ~IsNone(cfg.filter_cfg) /\ "bbox_score_thr" \in DOMAIN cfg.filter_cfg

\* the stored records whose score is not below the threshold
Survivors ==
    {i \in 1..Len(data_list) :
        data_list[i].bbox_score[1] >= cfg.filter_cfg.bbox_score_thr}

\* C5: filter_data in topdown mode returns the stored list unchanged when
\* no bbox_score_thr is configured, and otherwise exactly the records with
\* bbox_score >= threshold, in order; the stored list and its records are
\* not modified.
C5_FilterKeepsScoresAtLeastThr ==
    pc = "filtered" =>
        /\ data_list = _load_detection_results(det_results, coco)
        /\ ~HasThr => ret = data_list
        /\ HasThr =>
            /\ Len(ret) = Cardinality(Survivors)
            /\ \A i \in Survivors : ret[Rank(i, Survivors)] = data_list[i]

\* scores 2, 0, 1 with threshold 1: the record below the threshold is
\* dropped, the one equal to it survives, the order is kept
C5_Witness ==
    /\ pc = "filtered"
    /\ HasThr /\ cfg.filter_cfg.bbox_score_thr = 1
    /\ Len(data_list) = 3
    /\ [i \in 1..3 |-> data_list[i].bbox_score[1]] = <<2, 0, 1>>
    /\ ret = <<data_list[1], data_list[3]>>

\* the person detections (category_id 1)
Persons == {i \in 1..Len(det_results) : det_results[i].category_id = 1}

\* C6: one record per detection of category 1 and none for the others, in
\* input order, ids 0..n-1 in emission order (never the detection's own
\* id), bbox the first four values unclipped, keypoints all zero (1 x K x 2)
\* and keypoints_visible all one (1 x K x 1).
C6_DetectionRecords ==
    pc = "loaded" =>
        /\ Len(data_list) = Cardinality(Persons)
        /\ \A i \in Persons :
            LET r == data_list[Rank(i, Persons)]
                det == det_results[i]
            IN  /\ r.id = Rank(i, Persons) - 1
                /\ r.id # det.id
                /\ r.image_id = det.image_id
                /\ r.bbox = << <<det.bbox[1], det.bbox[2],
                                 det.bbox[3], det.bbox[4]>> >>
                /\ r.bbox_score = <<det.score>>
                /\ Len(r.keypoints) = 1 /\ Len(r.keypoints[1]) = NumKpt
                /\ \A k \in 1..NumKpt : r.keypoints[1][k] = <<0, 0>>
                /\ Len(r.keypoints_visible) = 1
                /\ Len(r.keypoints_visible[1]) = NumKpt
                /\ \A k \in 1..NumKpt : r.keypoints_visible[1][k] = <<1>>

\* a skipped detection first, then two persons: ids 0 and 1, the second
\* with its out-of-bounds five-value box cut to four values, unclipped
C6_Witness ==
    /\ pc = "loaded"
    /\ Len(det_results) = 3
    /\ Persons = {2, 3}
    /\ data_list[1].id = 0 /\ data_list[2].id = 1
    /\ Len(det_results[3].bbox) = 5
    /\ data_list[2].bbox = << <<-5, 9, 20, 30>> >>

(***************************************************************************)
(* Spec: the life of one CocoDataset: __init__, then full_init's           *)
(* load_data_list and filter_data.                                         *)
(***************************************************************************)
Configs ==
    [data_mode : {"topdown", "bottomup", "keypoint"},
     bbox_file : {"", "det.json"},
     test_mode : BOOLEAN,
     filter_cfg : FilterCfgs]

\* the annotation files: every annotation carries iscrowd (getAnnIds reads it)
FileKinds == {k \in AnnKinds : k.crowd >= 0}

AnnFile(s) == [i \in 1..Len(s) |-> MakeAnn(s[i][2], s[i][1], i)]

\* BaseDataset.full_init, reached from super().__init__ (lines 120-131):
\* the record list is loaded, then filtered
full_init == <<"load_data_list", "filter_data", "ready">>

\* load_data_list (lines 133-147) on the files read
load_data_list(c, index, dets) ==
    IF c.bbox_file # ""
    THEN [data_list |-> _load_detection_results(dets, index), rles |-> <<>>]
    ELSE LET list == _load_annotations(index)
         IN  IF c.data_mode = "topdown"
             THEN [data_list |-> _get_topdown_data_infos(list),
                   rles |-> <<>>]
             ELSE LET out == _get_bottomup_data_infos(list)
                  IN  [data_list |-> [k \in 1..Len(out) |-> out[k].info],
                       rles |-> [k \in 1..Len(out) |-> out[k].rles]]

Init ==
    /\ pc = "new"
    /\ cfg \in Configs
    /\ coco = NoCoco
    /\ det_results = <<>>
    /\ raw_data_info = <<>>
    /\ data_list = <<>>
    /\ ret = <<>>
    /\ merge_calls = <<>>
    /\ loads = 0
    /\ error = "none"

\* __init__ up to the call of super().__init__
Construct ==
    /\ pc = "new"
    /\ error' = init_error(cfg)
    /\ pc' = IF init_error(cfg) = "none" THEN full_init[1] ELSE "error"
    /\ UNCHANGED <<cfg, coco, det_results, raw_data_info, data_list, ret,
                   merge_calls, loads>>

\* self.data_list = self.load_data_list(); the files are read here
LoadDataList ==
    /\ pc = "load_data_list"
    /\ \E a \in SeqsUpTo(ImageIds \X FileKinds, MaxFile),
          d \in SeqsUpTo(DetKinds, MaxFile) :
          /\ IF cfg.bbox_file # "" THEN a = <<>> ELSE d = <<>>
          /\ coco' = [imgs |-> Imgs, anns |-> AnnFile(a)]
          /\ det_results' = DetFile(d)
          /\ LET out == load_data_list(cfg, coco', det_results')
             IN  /\ data_list' = out.data_list
                 /\ merge_calls' = out.rles
    /\ loads' = loads + 1
    /\ pc' = full_init[2]
    /\ UNCHANGED <<cfg, raw_data_info, ret, error>>

\* self.data_list = self.filter_data()
FilterData ==
    /\ pc = "filter_data"
    /\ LET r == filter_data(data_list, cfg.filter_cfg, cfg.data_mode)
       IN  IF r.raised
           THEN /\ error' = "bbox_score_thr needs topdown"
                /\ pc' = "error"
                /\ UNCHANGED data_list
           ELSE /\ data_list' = r.value
                /\ pc' = full_init[3]
                /\ UNCHANGED error
    /\ UNCHANGED <<cfg, coco, det_results, raw_data_info, ret, merge_calls,
                   loads>>

Next == Construct \/ LoadDataList \/ FilterData

Spec == Init /\ [][Next]_vars

(***************************************************************************)
(* Claims about the lifecycle (Spec).                                      *)
(***************************************************************************)
\* the configurations __init__ must refuse
BadInitCfg ==
    \/ cfg.data_mode \notin {"topdown", "bottomup"}
    \/ cfg.bbox_file # "" /\ cfg.data_mode # "topdown"
    \/ cfg.bbox_file # "" /\ ~cfg.test_mode

\* bbox_score_thr configured while data_mode is not topdown
BadFilterCfg == HasThr /\ cfg.data_mode # "topdown"

CanonicalKeys ==
    {"image_id", "image_file", "image_shape", "bbox", "bbox_score",
     "num_keypoints", "keypoints", "keypoints_visible", "iscrowd",
     "segmentation", "id", "sigmas"}

\* C9: every record load_data_list returns in topdown mode, from an
\* annotation or from a detection, has the canonical record shape and
\* carries the metadata's sigmas.
C9_Original ==
    (pc \in {"filter_data", "ready"} /\ cfg.data_mode = "topdown") =>
        \A i \in 1..Len(data_list) :
            /\ DOMAIN data_list[i] = CanonicalKeys
            /\ data_list[i].sigmas = metainfo_sigmas
====
